---- MODULE Spec2Model ----
(***************************************************************************)
(* A model of the weather-summary backend (api/views.py): city resolution  *)
(* with cascading candidate queries (_geocode_city), the read-through      *)
(* caches of _current_weather and _forecast_5d3h, the daily aggregation    *)
(* and the error mapping of weather_summary.                               *)
(*                                                                         *)
(* Text is modelled as sequences of one-character strings, coordinates as  *)
(* integers in units of 1e-5 degree, the numbers of a payload by their     *)
(* decimal text in units of 0.01, time as integer seconds.                 *)
(***************************************************************************)
EXTENDS Integers, Sequences, FiniteSets, TLC

VARIABLES
    keyPresent,   \* OWM_API_KEY is non-empty (fixed when the process starts)
    compensated,  \* sum() of the interpreter compensates the rounding errors
    threads,      \* the requests being served at the same time
    now,          \* the clock, in seconds
    cache,        \* the process-wide cache: key -> [value, expires]
    pc,           \* where the request being served stands
    input,        \* the city parameter of the request, as sent
    city,         \* the city text of the request, after defaulting
    candidates,   \* final_candidates of _geocode_city
    idx,          \* the index of the candidate the loop is at
    last_err,     \* last_err of _geocode_city
    calls,        \* the geocoding queries sent while serving this request
    wxCalls,      \* the weather endpoints called while serving this request
    coords,       \* (lat, lon) as resolved
    wx,           \* the current-conditions payload
    fc,           \* the forecast payload
    response,     \* the response of the request, NoResponse until it is sent
    nreq,         \* the number of requests started
    nadv,         \* the number of times the clock advanced
    prev          \* the previous resolve call: its input, time, queries, outcome

vars == <<keyPresent, compensated, threads, now, cache, pc, input, city, candidates, idx,
          last_err, calls,
          wxCalls, coords, wx, fc, response, nreq, nadv, prev>>

-----------------------------------------------------------------------------
(* Text: str.strip, str.lower, str.split(",")[0], the "in" operator.       *)

UpperAlpha == <<"A","B","C","D","E","F","G","H","I","J","K","L","M","N","O","P","Q","R","S","T","U","V","W","X","Y","Z">>
LowerAlpha == <<"a","b","c","d","e","f","g","h","i","j","k","l","m","n","o","p","q","r","s","t","u","v","w","x","y","z">>

LowerChar(c) ==
    IF \E i \in 1..Len(UpperAlpha) : UpperAlpha[i] = c
    THEN LowerAlpha[CHOOSE i \in 1..Len(UpperAlpha) : UpperAlpha[i] = c]
    ELSE c

Lower(s) == [i \in 1..Len(s) |-> LowerChar(s[i])]

IsSpace(c) == c = " "

RECURSIVE LStrip(_)
LStrip(s) == IF s # <<>> /\ IsSpace(Head(s)) THEN LStrip(Tail(s)) ELSE s

RECURSIVE RStrip(_)
RStrip(s) ==
    IF s # <<>> /\ IsSpace(s[Len(s)]) THEN RStrip(SubSeq(s, 1, Len(s) - 1)) ELSE s

Strip(s) == RStrip(LStrip(s))

\* sub in s
Contains(s, sub) ==
    \E i \in 1..(Len(s) - Len(sub) + 1) : SubSeq(s, i, i + Len(sub) - 1) = sub

\* s.split(",")[0]
SplitFirst(s) ==
    IF \E i \in 1..Len(s) : s[i] = ","
    THEN SubSeq(s, 1, (CHOOSE i \in 1..Len(s) :
                          s[i] = "," /\ \A j \in 1..(i - 1) : s[j] # ",") - 1)
    ELSE s

S_philippines == <<"p","h","i","l","i","p","p","i","n","e","s">>
S_commaPH == <<",","P","H">>
S_commaph == <<",","p","h">>
S_comma == <<",">>
DefaultCity == <<"B","a","c","o","l","o","d",",","P","H">>

-----------------------------------------------------------------------------
(* Candidate generation of _geocode_city.                                  *)

\* first_part / short
FirstPart(base) == Strip(SplitFirst(base))

\* RawCandidates with the two candidates of rule 2 in the order of rule 3
RawCandidates_swapped(c) ==
    LET base == Strip(c)
        lowered == Lower(base)
        r1 == <<base>>
        r2 == IF Contains(lowered, S_philippines)
              THEN <<FirstPart(base), FirstPart(base) \o S_commaPH>>
              ELSE <<>>
        r3 == IF Contains(base, S_comma) /\ ~Contains(lowered, S_philippines)
              THEN <<FirstPart(base), FirstPart(base) \o S_commaPH>>
              ELSE <<>>
        r4 == IF ~Contains(lowered, S_commaph) /\ ~Contains(lowered, S_philippines)
              THEN <<FirstPart(base) \o S_commaPH>>
              ELSE <<>>
    IN r1 \o r2 \o r3 \o r4

\* candidates, before de-duplication
RawCandidates(c) ==
    LET base == Strip(c)
        lowered == Lower(base)
        r1 == <<base>>
        r2 == IF Contains(lowered, S_philippines)
              THEN <<FirstPart(base) \o S_commaPH, FirstPart(base)>>
              ELSE <<>>
        r3 == IF Contains(base, S_comma) /\ ~Contains(lowered, S_philippines)
              THEN <<FirstPart(base), FirstPart(base) \o S_commaPH>>
              ELSE <<>>
        r4 == IF ~Contains(lowered, S_commaph) /\ ~Contains(lowered, S_philippines)
              THEN <<FirstPart(base) \o S_commaPH>>
              ELSE <<>>
    IN r1 \o r2 \o r3 \o r4

\* the de-duplication loop: seen, final_candidates
RECURSIVE Dedup(_, _, _)
Dedup(qs, seen, acc) ==
    IF qs = <<>> THEN acc
    ELSE LET q == Head(qs)
             q_norm == Lower(Strip(q))
         IN IF q_norm # <<>> /\ q_norm \notin seen
            THEN Dedup(Tail(qs), seen \cup {q_norm}, Append(acc, Strip(q)))
            ELSE Dedup(Tail(qs), seen, acc)

FinalCandidates(c) == Dedup(RawCandidates(c), {}, <<>>)

\* "if not city: city = ..." and "request.GET.get("city") or ..."
EffCity(c) == IF c = <<>> THEN DefaultCity ELSE c

-----------------------------------------------------------------------------
(* Values a JSON payload may leave out: <<>> is absent (or null), <<x>> is *)
(* present with value x.                                                   *)

Nothing == <<>>
Some(x) == <<x>>
Val(o) == o[1]

-----------------------------------------------------------------------------
(* Dates: datetime.utcfromtimestamp(ts).strftime("%Y-%m-%d").              *)

SecondsPerDay == 24 * 60 * 60

DigitChars == <<"0","1","2","3","4","5","6","7","8","9">>

\* the Gregorian date of a day number (days since 1970-01-01)
CivilFromDays(days) ==
    LET z == days + 719468
        era == z \div 146097
        doe == z - era * 146097
        yoe == (doe - doe \div 1460 + doe \div 36524 - doe \div 146096) \div 365
        doy == doe - (365 * yoe + yoe \div 4 - yoe \div 100)
        mp == (5 * doy + 2) \div 153
        d == doy - (153 * mp + 2) \div 5 + 1
        m == IF mp < 10 THEN mp + 3 ELSE mp - 9
        y == yoe + era * 400 + (IF m <= 2 THEN 1 ELSE 0)
    IN [year |-> y, month |-> m, day |-> d]

\* n written with w digits, zero-padded
RECURSIVE Digits(_, _)
Digits(n, w) ==
    IF w = 0 THEN <<>> ELSE Append(Digits(n \div 10, w - 1), DigitChars[(n % 10) + 1])

\* strftime("%Y-%m-%d")
FormatDate(c) == Digits(c.year, 4) \o <<"-">> \o Digits(c.month, 2) \o <<"-">> \o Digits(c.day, 2)

DateKey(ts) == FormatDate(CivilFromDays(ts \div SecondsPerDay))

\* the code point order of the characters of a date string
CharCode(c) ==
    IF c = "-" THEN 45
    ELSE 47 + (CHOOSE i \in 1..10 : DigitChars[i] = c)

\* a < b as Python compares str
RECURSIVE StrLess(_, _)
StrLess(a, b) ==
    IF b = <<>> THEN FALSE
    ELSE IF a = <<>> THEN TRUE
    ELSE IF Head(a) = Head(b) THEN StrLess(Tail(a), Tail(b))
    ELSE CharCode(Head(a)) < CharCode(Head(b))

\* sorted(keys)
RECURSIVE SortedKeys(_)
SortedKeys(ks) ==
    IF ks = {} THEN <<>>
    ELSE LET m == CHOOSE k \in ks : \A o \in ks : o = k \/ StrLess(k, o)
         IN <<m>> \o SortedKeys(ks \ {m})

-----------------------------------------------------------------------------
(* Numbers. A number of a JSON payload is written here in units of 0.01    *)
(* (its decimal text); r.json() makes a Python float of it. A float x with *)
(* x = 0 or 2^-7 <= x < 2^7 is held exactly, as the integer x * 2^62 in    *)
(* three limbs <<high, mid, low>> of 23 bits.                              *)

\* num/den rounded to the nearest integer, ties to even (den > 0)
RoundDiv(num, den) ==
    LET q == num \div den
        r == num % den
    IN IF 2 * r < den THEN q
       ELSE IF 2 * r > den THEN q + 1
       ELSE IF q % 2 = 0 THEN q ELSE q + 1

\* the significand of a float has 53 bits
MantissaBits == 53

LimbBase == 2^23

FloatZero == <<0, 0, 0>>

RECURSIVE BitLen(_)
BitLen(x) == IF x = 0 THEN 0 ELSE 1 + BitLen(x \div 2)

\* the number of bits of x * 2^62
FloatLen(f) ==
    IF f[1] > 0 THEN 46 + BitLen(f[1])
    ELSE IF f[2] > 0 THEN 23 + BitLen(f[2])
    ELSE BitLen(f[3])

\* the limbs of high * 2^46 + mid * 2^23 + low
Carry(high, mid, low) ==
    LET m == mid + (low \div LimbBase)
    IN <<high + (m \div LimbBase), m % LimbBase, low % LimbBase>>

\* the float nearest to an exact result f, ties to even; sticky says that
\* the exact result lies above f by less than 2^-62
RoundFloat(f, sticky) ==
    LET d == FloatLen(f) - MantissaBits
        p == 2^d
        r == f[3] % p
        keep == f[3] - r
        up == \/ 2 * r > p
              \/ 2 * r = p /\ (sticky \/ (keep \div p) % 2 = 1)
    IN IF d <= 0 THEN f
       ELSE Carry(f[1], f[2], keep + (IF up THEN p ELSE 0))

\* f / n for a small integer n > 0: the quotient rounded down to a multiple
\* of 2^-62, and whether anything was left
DivSmall(f, n) ==
    LET a2 == (f[1] % n) * LimbBase + f[2]
        a3 == (a2 % n) * LimbBase + f[3]
    IN [q |-> <<f[1] \div n, a2 \div n, a3 \div n>>, sticky |-> a3 % n # 0]

\* float("0.13"): the float nearest to n / 100
FromDecimal(n) ==
    LET d == DivSmall(<<n * (2^16), 0, 0>>, 100)
    IN RoundFloat(d.q, d.sticky)

\* a + b
FloatAdd(a, b) == RoundFloat(Carry(a[1] + b[1], a[2] + b[2], a[3] + b[3]), FALSE)

\* a * k for a small integer k, exactly
TimesSmall(a, k) == Carry(a[1] * k, a[2] * k, a[3] * k)

\* Times100 with 200.0 for 100.0
Times100_double(a) == RoundFloat(TimesSmall(a, 200), FALSE)

\* a * 100.0
Times100(a) == RoundFloat(TimesSmall(a, 100), FALSE)

\* a / n for an integer n > 0
FloatDiv(a, n) ==
    LET d == DivSmall(a, n)
    IN RoundFloat(d.q, d.sticky)

\* a <= b
FloatLeq(a, b) ==
    \/ a[1] < b[1]
    \/ a[1] = b[1] /\ a[2] < b[2]
    \/ a[1] = b[1] /\ a[2] = b[2] /\ a[3] <= b[3]

\* round(x, 1): the one-decimal number nearest to x, ties to even, in units
\* of 0.01
Round1(x) ==
    LET y == TimesSmall(x, 10)
        whole == y[1] \div (2^16)
        frac == y[1] % (2^16)
        rest == y[2] > 0 \/ y[3] > 0
        up == \/ frac > 2^15
              \/ frac = 2^15 /\ (rest \/ whole % 2 = 1)
    IN 10 * (IF up THEN whole + 1 ELSE whole)

\* round(total / max(1, n), 1)
RoundMean1(total, n) == Round1(FloatDiv(total, IF n > 1 THEN n ELSE 1))

\* 0 + xs[1] + xs[2] + ..., each addition rounded
RECURSIVE SumFrom(_, _)
SumFrom(acc, xs) == IF xs = <<>> THEN acc ELSE SumFrom(FloatAdd(acc, Head(xs)), Tail(xs))

\* xs[1] + xs[2] + ..., exactly
RECURSIVE ExactSum(_)
ExactSum(xs) ==
    IF xs = <<>> THEN FloatZero
    ELSE LET t == ExactSum(Tail(xs))
         IN Carry(Head(xs)[1] + t[1], Head(xs)[2] + t[2], Head(xs)[3] + t[3])

\* sum(xs). CPython up to 3.11 adds from the left in float arithmetic; from
\* 3.12 on it carries the rounding errors along (Neumaier) and adds them at
\* the end, which for these values gives the exact sum rounded once.
SeqSum(xs) ==
    IF compensated THEN RoundFloat(ExactSum(xs), FALSE) ELSE SumFrom(FloatZero, xs)

SeqMin(xs) == CHOOSE x \in {xs[i] : i \in 1..Len(xs)} : \A i \in 1..Len(xs) : FloatLeq(x, xs[i])
SeqMax(xs) == CHOOSE x \in {xs[i] : i \in 1..Len(xs)} : \A i \in 1..Len(xs) : FloatLeq(xs[i], x)

\* NotNone with None counted as 0
RECURSIVE NotNone_zero(_)
NotNone_zero(xs) ==
    IF xs = <<>> THEN <<>>
    ELSE <<IF Head(xs) = Nothing THEN FloatZero ELSE Val(Head(xs))>> \o NotNone_zero(Tail(xs))

\* [t for t in xs if t is not None]
RECURSIVE NotNone(_)
NotNone(xs) ==
    IF xs = <<>> THEN <<>>
    ELSE (IF Head(xs) = Nothing THEN <<>> ELSE <<Val(Head(xs))>>) \o NotNone(Tail(xs))

-----------------------------------------------------------------------------
(* The daily aggregation of weather_summary.                               *)

\* a forecast sample: dt, temp_min, temp_max, pop, rain and wind are absent
\* (<<>>) or present; bad says that pop holds text instead of a number

\* "if not ts: continue"
Skipped(item) == item.dt = Nothing \/ Val(item.dt) = 0

\* "item.get("pop", 0) or 0" and "(item.get("rain", {}) or {}).get("3h", 0) or 0"
OrZero(o) == IF o = Nothing THEN 0 ELSE Val(o)

EmptyBucket == [temps_min |-> <<>>, temps_max |-> <<>>, pops |-> <<>>,
                rains |-> <<>>, winds |-> <<>>]

\* main.get("temp_min"), wind.get("speed"): None or the float
Number(o) == IF o = Nothing THEN Nothing ELSE Some(FromDecimal(Val(o)))

\* one pass of the loop body over item
AddSample(buckets, item) ==
    LET date_key == DateKey(Val(item.dt))
        b == IF date_key \in DOMAIN buckets THEN buckets[date_key] ELSE EmptyBucket
        nb == [temps_min |-> Append(b.temps_min, Number(item.temp_min)),
               temps_max |-> Append(b.temps_max, Number(item.temp_max)),
               pops |-> Append(b.pops, Times100(FromDecimal(OrZero(item.pop)))),
               rains |-> Append(b.rains, FromDecimal(OrZero(item.rain))),
               winds |-> Append(b.winds, Number(item.wind))]
    IN [k \in DOMAIN buckets \cup {date_key} |-> IF k = date_key THEN nb ELSE buckets[k]]

\* the loop over fc["list"]
RECURSIVE Buckets(_, _)
Buckets(items, buckets) ==
    IF items = <<>> THEN buckets
    ELSE IF Skipped(Head(items)) THEN Buckets(Tail(items), buckets)
    ELSE Buckets(Tail(items), AddSample(buckets, Head(items)))

\* the loop raises TypeError at a sample it does not skip whose pop is text
LoopRaises(items) == \E i \in 1..Len(items) : ~Skipped(items[i]) /\ items[i].bad

\* "[:5]"
DayCap == 5

Take(s, n) == SubSeq(s, 1, IF Len(s) < n THEN Len(s) ELSE n)

\* one daily row
DailyRow(day, b) ==
    LET temps_min == NotNone(b.temps_min)
        temps_max == NotNone(b.temps_max)
        winds == NotNone(b.winds)
    IN [date |-> day,
        temp_min |-> IF temps_min # <<>> THEN Some(Round1(SeqMin(temps_min))) ELSE Nothing,
        temp_max |-> IF temps_max # <<>> THEN Some(Round1(SeqMax(temps_max))) ELSE Nothing,
        pop |-> IF b.pops # <<>> THEN Some(Round1(SeqMax(b.pops))) ELSE Nothing,
        rain_mm |-> IF b.rains # <<>> THEN Some(Round1(SeqSum(b.rains))) ELSE Some(0),
        wind_speed |-> IF winds # <<>>
                       THEN Some(RoundMean1(SeqSum(winds), Len(winds)))
                       ELSE Nothing]

\* the days the rows are made for
Days(buckets) == Take(SortedKeys(DOMAIN buckets), DayCap)

\* daily_rows
DailyRows(items) ==
    LET buckets == Buckets(items, <<>>)
        days == Days(buckets)
    IN [i \in 1..Len(days) |-> DailyRow(days[i], buckets[days[i]])]

-----------------------------------------------------------------------------
(* Bounds of the model.                                                    *)

MaxRequests == 2      \* requests served in a run
MaxAdvances == 2      \* times the clock advances in a run
MaxPieces == 4        \* pieces a generated city text is made of
MaxSlots == 11        \* forecast slots a generated forecast draws from
MaxThreads == 2       \* requests served at the same time

\* the clock advances between requests by one of these
TimeSteps == {60, 60 * 60 * 24 - 60}

-----------------------------------------------------------------------------
(* The cache (django.core.cache, LocMemCache) and the keys of views.py.    *)

GeoTTL == 60 * 60 * 24
CurrentTTL == 60
ForecastTTL == 60 * 3

\* f"{x:.4f}" of a coordinate given in units of 1e-5 degree
Round4(x) == RoundDiv(x, 10)

\* GeoKey without .lower()
GeoKey_cased(c) == [ns |-> "geocode", text |-> c, lat |-> 0, lon |-> 0]

\* f"geocode:{city.lower()}"
GeoKey(c) == [ns |-> "geocode", text |-> Lower(c), lat |-> 0, lon |-> 0]

\* CurrentKey without the coordinates
CurrentKey_shared(ll) == [ns |-> "wx:current", text |-> <<>>, lat |-> 0, lon |-> 0]

\* f"wx:current:{lat:.4f}:{lon:.4f}"
CurrentKey(ll) == [ns |-> "wx:current", text |-> <<>>, lat |-> Round4(ll[1]), lon |-> Round4(ll[2])]

\* f"wx:fcst:{lat:.4f}:{lon:.4f}"
ForecastKey(ll) == [ns |-> "wx:fcst", text |-> <<>>, lat |-> Round4(ll[1]), lon |-> Round4(ll[2])]

\* CacheGet with the entries never expiring
CacheGet_forever(c, key, t) ==
    IF key \in DOMAIN c THEN Some(c[key].value) ELSE Nothing

\* cache.get(key): the value of an entry that has not expired
CacheGet(c, key, t) ==
    IF key \in DOMAIN c /\ c[key].expires > t THEN Some(c[key].value) ELSE Nothing

\* cache.set(key, value, ttl) at time t; at keeps the time the entry was set
CacheSet(c, key, value, ttl, t) ==
    [k \in DOMAIN c \cup {key} |->
        IF k = key THEN [value |-> value, expires |-> t + ttl, at |-> t] ELSE c[k]]

\* GeoHit with the cached value never used
GeoHit_never(cached) == FALSE

\* "if cached:" for a (lat, lon) tuple
GeoHit(cached) == cached # Nothing

\* the truth value of a payload: an empty dict is false
PayloadTruthy(p) ==
    \/ p.shape = "list"
    \/ \E f \in DOMAIN p \ {"shape"} : p[f] # Nothing

\* "if cached:" for a payload
PayloadHit(cached) == cached # Nothing /\ PayloadTruthy(Val(cached))

-----------------------------------------------------------------------------
(* Exceptions, str() and the responses of weather_summary.                 *)

\* text: what str() gives; arg, of, num: what the text was formatted from
Text(kind, arg, of, num) == [text |-> kind, arg |-> arg, of |-> of, num |-> num]

MissingKey == [exc |-> "RuntimeError", status |-> 0, json |-> FALSE, body |-> "",
               msg |-> Text("Missing OWM_API_KEY in environment/.env", <<>>, "", 0)]
NotFound(c) == [exc |-> "RuntimeError", status |-> 0, json |-> FALSE, body |-> "",
                msg |-> Text("City not found: ", c, "", 0)]
NotFoundOWM(c) == [exc |-> "RuntimeError", status |-> 0, json |-> FALSE, body |-> "",
                   msg |-> Text("City not found (OWM): ", c, "", 0)]
\* requests.ConnectionError, requests.Timeout: raised by SESSION.get
TransportError == [exc |-> "ConnectionError", status |-> 0, json |-> FALSE, body |-> "",
                   msg |-> Text("connection failed", <<>>, "", 0)]
\* r.json() of a body that is no JSON, item["lat"] of an item without it
BodyError == [exc |-> "ValueError", status |-> 0, json |-> FALSE, body |-> "",
              msg |-> Text("bad body", <<>>, "", 0)]
\* wx.get / fc.get of a payload that is no dict, pop * 100.0 of a text
ShapeError == [exc |-> "AttributeError", status |-> 0, json |-> FALSE, body |-> "",
               msg |-> Text("object has no attribute 'get'", <<>>, "", 0)]
TypeError == [exc |-> "TypeError", status |-> 0, json |-> FALSE, body |-> "",
              msg |-> Text("can't multiply sequence by non-int", <<>>, "", 0)]
\* r.raise_for_status(): the response had status 4xx or 5xx; json says
\* whether e.response.json() parses its body
HTTPError(status, json, body) ==
    [exc |-> "HTTPError", status |-> status, json |-> json, body |-> body,
     msg |-> Text("Error for url", <<>>, "", status)]

\* str(e)
StrExc(e) == e.msg
\* str(e.response.json())
StrBody(body) == Text("repr", <<>>, body, 0)

NoResponse == [kind |-> "none", status |-> 0, error |-> Text("", <<>>, "", 0),
               payload |-> Nothing]

\* _json_error(message, status)
JsonError(message, status) ==
    [kind |-> "error", status |-> status, error |-> message, payload |-> Nothing]

\* JsonResponse(payload)
JsonOk(payload) ==
    [kind |-> "ok", status |-> 200, error |-> Text("", <<>>, "", 0),
     payload |-> Some(payload)]

\* an exception that leaves weather_summary
Unhandled(e) ==
    [kind |-> "unhandled", status |-> 0, error |-> StrExc(e), payload |-> Nothing]

\* Handle with every HTTPError answered 502
Handle_always502(e) ==
    IF e.exc = "HTTPError"
    THEN JsonError(StrExc(e), 502)
    ELSE JsonError(StrExc(e), 500)

\* Handle with the last clause catching RuntimeError only
Handle_narrow(e) ==
    IF e.exc = "HTTPError"
    THEN IF e.json
         THEN JsonError(StrBody(e.body), e.status)
         ELSE JsonError(StrExc(e), 502)
    ELSE IF e.exc = "RuntimeError" THEN JsonError(StrExc(e), 500)
    ELSE Unhandled(e)

\* the except clauses of weather_summary
Handle(e) ==
    IF e.exc = "HTTPError"
    THEN IF e.json
         THEN JsonError(StrBody(e.body), e.status)
         ELSE JsonError(StrExc(e), 502)
    ELSE JsonError(StrExc(e), 500)

-----------------------------------------------------------------------------
(* What the provider may answer.                                           *)

\* (lat, lon) in units of 1e-5 degree; the first two differ only past the
\* fourth decimal place
Coords == {<<1067654, 12295012>>, <<1067651, 12295008>>, <<1031570, 12388540>>}

ErrStatuses == {401, 503}

HttpErrors ==
    {HTTPError(s, j, IF j THEN "json body" ELSE "html body") :
        s \in ErrStatuses, j \in BOOLEAN}

\* the outcomes of one geocoding query
GeoOutcomes ==
    {[kind |-> "found", ll |-> c, err |-> BodyError] : c \in Coords}
    \cup {[kind |-> "empty", ll |-> <<0, 0>>, err |-> BodyError]}
    \cup {[kind |-> "http_error", ll |-> <<0, 0>>, err |-> HTTPError(401, TRUE, "json body")]}
    \cup {[kind |-> "transport", ll |-> <<0, 0>>, err |-> TransportError]}
    \cup {[kind |-> "bad_body", ll |-> <<0, 0>>, err |-> BodyError]}

\* 2025-12-28T00:00:00Z
EpochBase == 20450 * SecondsPerDay

WxFull == [shape |-> "dict",
           main |-> Some([temp |-> 2950, humidity |-> 70]),
           wind |-> Some(310),
           sys |-> Some([sunrise |-> EpochBase + 21600, sunset |-> EpochBase + 64800]),
           weather |-> Some("clear sky")]
WxEmpty == [shape |-> "dict", main |-> Nothing, wind |-> Nothing, sys |-> Nothing,
            weather |-> Nothing]
WxList == [shape |-> "list", main |-> Nothing, wind |-> Nothing, sys |-> Nothing,
           weather |-> Nothing]

WxPayloads == {WxFull, WxEmpty, WxList}

Sample(dt, tmin, tmax, pop, rain, wind, bad) ==
    [dt |-> dt, temp_min |-> tmin, temp_max |-> tmax, pop |-> pop, rain |-> rain,
     wind |-> wind, bad |-> bad]

Forecast(name, list) == [shape |-> "dict", city_name |-> name, list |-> list]

CityName == <<"B","a","c","o","l","o","d"," ","C","i","t","y">>

FcFull ==
    Forecast(Some(CityName),
             Some(<<Sample(Some(EpochBase + 10800), Some(2000), Some(2800), Some(10),
                           Some(0), Some(300), FALSE),
                    Sample(Some(EpochBase + 21600), Some(1800), Some(3000), Some(50),
                           Some(250), Some(500), FALSE),
                    Sample(Some(EpochBase + 97200), Some(2200), Some(2600), Nothing,
                           Nothing, Nothing, FALSE)>>))
FcEmpty == Forecast(Nothing, Nothing)
FcBad ==
    Forecast(Nothing,
             Some(<<Sample(Some(EpochBase), Nothing, Nothing, Some(0), Nothing, Nothing,
                           TRUE)>>))
FcList == [shape |-> "list", city_name |-> Nothing, list |-> Nothing]

FcPayloads == {FcFull, FcEmpty, FcBad, FcList}

\* the outcomes of one weather call, its payloads drawn from ps
WxOutcomes(ps) ==
    {[kind |-> "ok", payload |-> Some(p), err |-> BodyError] : p \in ps}
    \cup {[kind |-> "http_error", payload |-> Nothing, err |-> e] : e \in HttpErrors}
    \cup {[kind |-> "transport", payload |-> Nothing, err |-> TransportError]}
    \cup {[kind |-> "bad_body", payload |-> Nothing, err |-> BodyError]}

\* the city texts of the requests
CityChoices == {<<>>, <<"B","a",","," ","P","h","i","l","i","p","p","i","n","e","s">>, <<"b","a",","," ","p","h","i","l","i","p","p","i","n","e","s">>}

-----------------------------------------------------------------------------
(* The request: weather_summary, with _geocode_city, _current_weather and  *)
(* _forecast_5d3h inlined. One action per cache read and provider call.    *)

NoPrev == [valid |-> FALSE, input |-> <<>>, at |-> 0, ncalls |-> 0, fetched |-> FALSE]

Init ==
    /\ keyPresent \in BOOLEAN
    /\ compensated \in BOOLEAN
    /\ threads = <<>>
    /\ now = 0
    /\ cache = <<>>
    /\ pc = "idle"
    /\ input = <<>>
    /\ city = <<>>
    /\ candidates = <<>>
    /\ idx = 0
    /\ last_err = Nothing
    /\ calls = <<>>
    /\ wxCalls = <<>>
    /\ coords = <<0, 0>>
    /\ wx = WxEmpty
    /\ fc = FcEmpty
    /\ response = NoResponse
    /\ nreq = 0
    /\ nadv = 0
    /\ prev = NoPrev

\* the request ends with response r
Respond(r) ==
    /\ response' = r
    /\ pc' = "done"

\* weather_summary up to the first provider call of _geocode_city
StartWith(c) ==
    /\ pc = "idle"
    /\ nreq < MaxRequests
    /\ nreq' = nreq + 1
    /\ input' = c
    /\ city' = EffCity(c)
    /\ calls' = <<>>
    /\ wxCalls' = <<>>
    /\ last_err' = Nothing
    /\ LET cached == CacheGet(cache, GeoKey(EffCity(c)), now)
       IN IF GeoHit(cached)
          THEN /\ coords' = Val(cached)
               /\ pc' = "cur_get"
               /\ UNCHANGED <<candidates, idx, response>>
          ELSE IF ~keyPresent
          THEN /\ Respond(Handle(MissingKey))
               /\ UNCHANGED <<candidates, idx, coords>>
          ELSE IF FinalCandidates(EffCity(c)) = <<>>
          THEN /\ candidates' = <<>>
               /\ Respond(Handle(NotFound(EffCity(c))))
               /\ UNCHANGED <<idx, coords>>
          ELSE /\ candidates' = FinalCandidates(EffCity(c))
               /\ idx' = 1
               /\ pc' = "geo_call"
               /\ UNCHANGED <<coords, response>>
    /\ UNCHANGED <<keyPresent, compensated, threads,
                   now, cache, wx, fc, nadv, prev>>

Start == \E c \in CityChoices : StartWith(c)

\* NextCandidate with the loop stepping over a candidate
NextCandidate_skip(err) ==
    IF idx + 1 < Len(candidates)
    THEN /\ idx' = idx + 2
         /\ UNCHANGED <<pc, response>>
    ELSE /\ Respond(Handle(IF err # Nothing THEN NotFoundOWM(city) ELSE NotFound(city)))
         /\ UNCHANGED idx

\* NextCandidate with the loop left after the first candidate
NextCandidate_early(err) ==
    /\ Respond(Handle(IF err # Nothing THEN NotFoundOWM(city) ELSE NotFound(city)))
    /\ UNCHANGED idx

\* the loop of _geocode_city moves past candidate idx, err being last_err
NextCandidate(err) ==
    IF idx < Len(candidates)
    THEN /\ idx' = idx + 1
         /\ UNCHANGED <<pc, response>>
    ELSE /\ Respond(Handle(IF err # Nothing THEN NotFoundOWM(city) ELSE NotFound(city)))
         /\ UNCHANGED idx

\* one pass of the loop of _geocode_city: the query for candidate idx
GeocodeCall ==
    /\ pc = "geo_call"
    /\ \E o \in GeoOutcomes :
        /\ calls' = Append(calls, [q |-> candidates[idx], kind |-> o.kind, ll |-> o.ll])
        /\ IF o.kind = "found"
           THEN /\ cache' = CacheSet(cache, GeoKey(city), o.ll, GeoTTL, now)
                /\ coords' = o.ll
                /\ pc' = "cur_get"
                /\ UNCHANGED <<idx, last_err, response>>
           ELSE IF o.kind = "empty"
           THEN /\ NextCandidate(last_err)
                /\ UNCHANGED <<cache, coords, last_err>>
           ELSE IF o.kind = "http_error"
           THEN /\ last_err' = Some(o.err)
                /\ NextCandidate(Some(o.err))
                /\ UNCHANGED <<cache, coords>>
           ELSE /\ Respond(Handle(o.err))
                /\ UNCHANGED <<cache, coords, idx, last_err>>
    /\ UNCHANGED <<keyPresent, compensated, threads,
                   now, input, city, candidates, wxCalls, wx, fc, nreq, nadv,
                   prev>>

\* _current_weather up to its provider call
CurrentGet ==
    /\ pc = "cur_get"
    /\ LET cached == CacheGet(cache, CurrentKey(coords), now)
       IN IF PayloadHit(cached)
          THEN /\ wx' = Val(cached)
               /\ pc' = "fc_get"
               /\ UNCHANGED response
          ELSE IF ~keyPresent
          THEN /\ Respond(Handle(MissingKey))
               /\ UNCHANGED wx
          ELSE /\ pc' = "cur_call"
               /\ UNCHANGED <<wx, response>>
    /\ UNCHANGED <<keyPresent, compensated, threads,
                   now, cache, input, city, candidates, idx, last_err, calls,
                   wxCalls, coords, fc, nreq, nadv, prev>>

\* the provider call of _current_weather and what follows it
CurrentCall ==
    /\ pc = "cur_call"
    /\ \E o \in WxOutcomes(WxPayloads) :
        /\ wxCalls' = Append(wxCalls, [endpoint |-> "current", kind |-> o.kind, err |-> o.err])
        /\ IF o.kind = "ok"
           THEN /\ cache' = CacheSet(cache, CurrentKey(coords), Val(o.payload), CurrentTTL, now)
                /\ wx' = Val(o.payload)
                /\ pc' = "fc_get"
                /\ UNCHANGED response
           ELSE /\ Respond(Handle(o.err))
                /\ UNCHANGED <<cache, wx>>
    /\ UNCHANGED <<keyPresent, compensated, threads,
                   now, input, city, candidates, idx, last_err, calls, coords,
                   fc, nreq, nadv, prev>>

\* _forecast_5d3h up to its provider call
ForecastGet ==
    /\ pc = "fc_get"
    /\ LET cached == CacheGet(cache, ForecastKey(coords), now)
       IN IF PayloadHit(cached)
          THEN /\ fc' = Val(cached)
               /\ pc' = "assemble"
               /\ UNCHANGED response
          ELSE IF ~keyPresent
          THEN /\ Respond(Handle(MissingKey))
               /\ UNCHANGED fc
          ELSE /\ pc' = "fc_call"
               /\ UNCHANGED <<fc, response>>
    /\ UNCHANGED <<keyPresent, compensated, threads,
                   now, cache, input, city, candidates, idx, last_err, calls,
                   wxCalls, coords, wx, nreq, nadv, prev>>

\* ForecastCall with cache.set before raise_for_status: a refused call
\* stores the body of its error response
ForecastCall_cachesFailure ==
    /\ pc = "fc_call"
    /\ \E o \in WxOutcomes(FcPayloads) :
        /\ wxCalls' = Append(wxCalls, [endpoint |-> "forecast", kind |-> o.kind, err |-> o.err])
        /\ IF o.kind = "ok"
           THEN /\ cache' = CacheSet(cache, ForecastKey(coords), Val(o.payload), ForecastTTL, now)
                /\ fc' = Val(o.payload)
                /\ pc' = "assemble"
                /\ UNCHANGED response
           ELSE IF o.kind = "http_error"
           THEN /\ cache' = CacheSet(cache, ForecastKey(coords), FcEmpty, ForecastTTL, now)
                /\ Respond(Handle(o.err))
                /\ UNCHANGED fc
           ELSE /\ Respond(Handle(o.err))
                /\ UNCHANGED <<cache, fc>>
    /\ UNCHANGED <<keyPresent, compensated, threads,
                   now, input, city, candidates, idx, last_err, calls, coords,
                   wx, nreq, nadv, prev>>

\* the provider call of _forecast_5d3h and what follows it
ForecastCall ==
    /\ pc = "fc_call"
    /\ \E o \in WxOutcomes(FcPayloads) :
        /\ wxCalls' = Append(wxCalls, [endpoint |-> "forecast", kind |-> o.kind, err |-> o.err])
        /\ IF o.kind = "ok"
           THEN /\ cache' = CacheSet(cache, ForecastKey(coords), Val(o.payload), ForecastTTL, now)
                /\ fc' = Val(o.payload)
                /\ pc' = "assemble"
                /\ UNCHANGED response
           ELSE /\ Respond(Handle(o.err))
                /\ UNCHANGED <<cache, fc>>
    /\ UNCHANGED <<keyPresent, compensated, threads,
                   now, input, city, candidates, idx, last_err, calls, coords,
                   wx, nreq, nadv, prev>>

\* datetime.fromtimestamp(ts, tz=timezone.utc).isoformat()
IsoUtc(ts) == [date |-> DateKey(ts), seconds |-> ts % SecondsPerDay]

\* the "current" object
Current(w) ==
    [temp_c |-> IF w.main # Nothing THEN Some(Val(w.main).temp) ELSE Nothing,
     humidity |-> IF w.main # Nothing THEN Some(Val(w.main).humidity) ELSE Nothing,
     wind_speed |-> w.wind,
     sunrise |-> IF w.sys # Nothing THEN Some(IsoUtc(Val(w.sys).sunrise)) ELSE Nothing,
     sunset |-> IF w.sys # Nothing THEN Some(IsoUtc(Val(w.sys).sunset)) ELSE Nothing,
     description |-> w.weather]

\* fc.get("list") or []
ForecastList(f) == IF f.list = Nothing THEN <<>> ELSE Val(f.list)

\* the payload of the 200 response
Payload(c, ll, w, f) ==
    [city |-> IF f.city_name # Nothing THEN Val(f.city_name) ELSE c,
     lat |-> ll[1],
     lon |-> ll[2],
     current |-> Current(w),
     daily |-> DailyRows(ForecastList(f))]

\* the body of weather_summary after the two fetches
Assemble ==
    /\ pc = "assemble"
    /\ Respond(IF wx.shape # "dict" \/ fc.shape # "dict" THEN Handle(ShapeError)
               ELSE IF LoopRaises(ForecastList(fc)) THEN Handle(TypeError)
               ELSE JsonOk(Payload(city, coords, wx, fc)))
    /\ UNCHANGED <<keyPresent, compensated, threads,
                   now, cache, input, city, candidates, idx, last_err, calls,
                   wxCalls, coords, wx, fc, nreq, nadv, prev>>

\* _geocode_city has returned or raised and its caller is ready to call it
\* again; what the call did is kept in prev
ResolveReturn ==
    /\ pc \in {"cur_get", "done"}
    /\ pc' = "idle"
    /\ prev' = [valid |-> TRUE, input |-> input, at |-> now, ncalls |-> Len(calls),
                fetched |-> \E i \in 1..Len(calls) : calls[i].kind = "found"]
    /\ input' = <<>>
    /\ city' = <<>>
    /\ candidates' = <<>>
    /\ idx' = 0
    /\ last_err' = Nothing
    /\ calls' = <<>>
    /\ coords' = <<0, 0>>
    /\ response' = NoResponse
    /\ UNCHANGED <<keyPresent, compensated, threads,
                   now, cache, wxCalls, wx, fc, nreq, nadv>>

\* time passes between two requests
Advance ==
    /\ pc = "idle"
    /\ nadv < MaxAdvances
    /\ nadv' = nadv + 1
    /\ \E d \in TimeSteps : now' = now + d
    /\ UNCHANGED <<keyPresent, compensated, threads,
                   cache, pc, input, city, candidates, idx, last_err, calls,
                   wxCalls, coords, wx, fc, response, nreq, prev>>

\* one summary request, from the state the process starts in
Next ==
    \/ Start
    \/ GeocodeCall
    \/ CurrentGet
    \/ CurrentCall
    \/ ForecastGet
    \/ ForecastCall
    \/ Assemble

Spec == Init /\ [][Next]_vars

\* resolve called again and again as time passes
NextResolve ==
    \/ Start
    \/ GeocodeCall
    \/ ResolveReturn
    \/ Advance

SpecResolve == Init /\ [][NextResolve]_vars

-----------------------------------------------------------------------------
(* One request served by a process that served a request before: the cache *)
(* holds what that request, at time 0, left in it, and some time has       *)
(* passed.                                                                 *)

WarmCity == <<"B","a",","," ","P","h","i","l","i","p","p","i","n","e","s">>

WarmCoords == <<1067654, 12295012>>

\* what the earlier request may have stored: coordinates or none, a
\* current-conditions payload or none, a forecast payload or none
WarmCaches ==
    {LET c1 == IF g THEN CacheSet(<<>>, GeoKey(WarmCity), WarmCoords, GeoTTL, 0) ELSE <<>>
         c2 == IF w = Nothing THEN c1
               ELSE CacheSet(c1, CurrentKey(WarmCoords), Val(w), CurrentTTL, 0)
     IN IF f = Nothing THEN c2
        ELSE CacheSet(c2, ForecastKey(WarmCoords), Val(f), ForecastTTL, 0) :
        g \in BOOLEAN,
        w \in {Nothing, Some(WxFull), Some(WxEmpty)},
        f \in {Nothing, Some(FcFull), Some(FcEmpty)}}

\* the time since then: up to and at the end of each time to live
WarmTimes ==
    {CurrentTTL - 1, CurrentTTL, ForecastTTL - 1, ForecastTTL, GeoTTL - 1, GeoTTL}

InitWarm ==
    /\ keyPresent = TRUE
    /\ compensated \in BOOLEAN
    /\ threads = <<>>
    /\ now \in WarmTimes
    /\ cache \in WarmCaches
    /\ pc = "idle"
    /\ input = <<>>
    /\ city = <<>>
    /\ candidates = <<>>
    /\ idx = 0
    /\ last_err = Nothing
    /\ calls = <<>>
    /\ wxCalls = <<>>
    /\ coords = <<0, 0>>
    /\ wx = WxEmpty
    /\ fc = FcEmpty
    /\ response = NoResponse
    /\ nreq = 0
    /\ nadv = 0
    /\ prev = NoPrev

\* the request up to the aggregation
NextFetch ==
    \/ Start
    \/ GeocodeCall
    \/ CurrentGet
    \/ CurrentCall
    \/ ForecastGet
    \/ ForecastCall

SpecWarm == InitWarm /\ [][NextFetch]_vars

-----------------------------------------------------------------------------
(* Requests served at the same time by threads of one process. They share  *)
(* the cache; each has its own locals, kept in threads. A thread takes one *)
(* step at a time: a cache.get, a provider call, a cache.set. Here calls   *)
(* and wxCalls hold the provider calls of all the threads.                 *)

ThreadIds == 1..MaxThreads

\* the city texts of the requests: the first two differ in case only
ConcCities == << <<"B","a">>, <<"b","a">> , <<"B","o">> >>

\* where the provider places a query: "Ba" and "Ba,PH" at two points that
\* differ past the fourth decimal place, anything else at a third
Place(q) ==
    IF Lower(q) = <<"b","a">> THEN <<1067654, 12295012>>
    ELSE IF Lower(SubSeq(q, 1, 2)) = <<"b","a">> THEN <<1067651, 12295008>>
    ELSE <<1031570, 12388540>>

\* the provider's answers to the geocoding query q
ConcGeoOutcomes(q) ==
    {[kind |-> "found", ll |-> Place(q), err |-> BodyError],
     [kind |-> "empty", ll |-> <<0, 0>>, err |-> BodyError]}

\* the provider's payloads name the coordinates they were asked for
PayloadAt(p, ll) == [f \in DOMAIN p \cup {"coord"} |-> IF f = "coord" THEN ll ELSE p[f]]

\* the provider's answers to a weather call for ll, its payload made from p
ConcWxOutcomes(p, ll) ==
    {[kind |-> "ok", payload |-> Some(PayloadAt(p, ll)), err |-> BodyError]}

\* the locals of a thread about to serve a request for city c; got is what
\* the provider call returned, hits the caches that served this request
NewThread(c) ==
    [pc |-> "geo_get", city |-> EffCity(c), candidates |-> <<>>, idx |-> 0,
     last_err |-> Nothing, coords |-> <<0, 0>>, got |-> Nothing, wx |-> WxEmpty,
     fc |-> FcEmpty, hits |-> {}, error |-> Nothing]

InitConc ==
    /\ keyPresent \in BOOLEAN
    /\ compensated = FALSE
    /\ \E c \in [ThreadIds -> 1..Len(ConcCities)] :
        /\ \A t \in ThreadIds \ {1} : c[t - 1] <= c[t]
        /\ threads = [t \in ThreadIds |-> NewThread(ConcCities[c[t]])]
    /\ now = 0
    /\ cache = <<>>
    /\ pc = "idle"
    /\ input = <<>>
    /\ city = <<>>
    /\ candidates = <<>>
    /\ idx = 0
    /\ last_err = Nothing
    /\ calls = {}
    /\ wxCalls = {}
    /\ coords = <<0, 0>>
    /\ wx = WxEmpty
    /\ fc = FcEmpty
    /\ response = NoResponse
    /\ nreq = 0
    /\ nadv = 0
    /\ prev = NoPrev

\* what no thread changes
Serial == <<keyPresent, compensated, now, pc, input, city, candidates, idx, last_err,
            coords, wx, fc, response, nreq, nadv, prev>>

\* thread t goes on with its locals changed to r
Becomes(t, r) == threads' = [threads EXCEPT ![t] = r]

\* an exception e ends the request of a thread with locals r
Raised(r, e) == [r EXCEPT !.pc = "done", !.error = Some(e)]

\* _geocode_city up to its loop
TGeoGet(t) ==
    LET r == threads[t]
        cached == CacheGet(cache, GeoKey(r.city), now)
    IN /\ r.pc = "geo_get"
       /\ Becomes(t, IF GeoHit(cached)
                     THEN [r EXCEPT !.pc = "cur_get", !.coords = Val(cached),
                                    !.hits = @ \cup {"geocode"}]
                     ELSE IF ~keyPresent THEN Raised(r, MissingKey)
                     ELSE IF FinalCandidates(r.city) = <<>> THEN Raised(r, NotFound(r.city))
                     ELSE [r EXCEPT !.pc = "geo_call", !.idx = 1,
                                    !.candidates = FinalCandidates(r.city)])
       /\ UNCHANGED <<cache, calls, wxCalls, Serial>>

\* the loop of a thread moves past its candidate, err being last_err
TNextCandidate(r, err) ==
    IF r.idx < Len(r.candidates)
    THEN [r EXCEPT !.idx = @ + 1, !.last_err = err]
    ELSE Raised(r, IF err # Nothing THEN NotFoundOWM(r.city) ELSE NotFound(r.city))

\* one pass of the loop of _geocode_city up to cache.set
TGeoCall(t) ==
    LET r == threads[t]
    IN /\ r.pc = "geo_call"
       /\ \E o \in ConcGeoOutcomes(r.candidates[r.idx]) :
            /\ calls' = calls \cup {[city |-> r.city, q |-> r.candidates[r.idx],
                                     kind |-> o.kind, ll |-> o.ll]}
            /\ Becomes(t, IF o.kind = "found"
                          THEN [r EXCEPT !.pc = "geo_set", !.got = Some(o.ll)]
                          ELSE IF o.kind = "empty" THEN TNextCandidate(r, r.last_err)
                          ELSE TNextCandidate(r, Some(o.err)))
       /\ UNCHANGED <<cache, wxCalls, Serial>>

\* cache.set and the return of _geocode_city
TGeoSet(t) ==
    LET r == threads[t]
    IN /\ r.pc = "geo_set"
       /\ cache' = CacheSet(cache, GeoKey(r.city), Val(r.got), GeoTTL, now)
       /\ Becomes(t, [r EXCEPT !.pc = "cur_get", !.coords = Val(r.got), !.got = Nothing])
       /\ UNCHANGED <<calls, wxCalls, Serial>>

\* _current_weather up to its provider call
TCurrentGet(t) ==
    LET r == threads[t]
        cached == CacheGet(cache, CurrentKey(r.coords), now)
    IN /\ r.pc = "cur_get"
       /\ Becomes(t, IF PayloadHit(cached)
                     THEN [r EXCEPT !.pc = "fc_get", !.wx = Val(cached),
                                    !.hits = @ \cup {"current"}]
                     ELSE IF ~keyPresent THEN Raised(r, MissingKey)
                     ELSE [r EXCEPT !.pc = "cur_call"])
       /\ UNCHANGED <<cache, calls, wxCalls, Serial>>

\* the provider call of _current_weather up to cache.set
TCurrentCall(t) ==
    LET r == threads[t]
    IN /\ r.pc = "cur_call"
       /\ \E o \in ConcWxOutcomes(WxFull, r.coords) :
            /\ wxCalls' = wxCalls \cup {[endpoint |-> "current", ll |-> r.coords,
                                         kind |-> o.kind, payload |-> o.payload]}
            /\ Becomes(t, IF o.kind = "ok"
                          THEN [r EXCEPT !.pc = "cur_set", !.got = o.payload]
                          ELSE Raised(r, o.err))
       /\ UNCHANGED <<cache, calls, Serial>>

\* cache.set and the return of _current_weather
TCurrentSet(t) ==
    LET r == threads[t]
    IN /\ r.pc = "cur_set"
       /\ cache' = CacheSet(cache, CurrentKey(r.coords), Val(r.got), CurrentTTL, now)
       /\ Becomes(t, [r EXCEPT !.pc = "fc_get", !.wx = Val(r.got), !.got = Nothing])
       /\ UNCHANGED <<calls, wxCalls, Serial>>

\* _forecast_5d3h up to its provider call
TForecastGet(t) ==
    LET r == threads[t]
        cached == CacheGet(cache, ForecastKey(r.coords), now)
    IN /\ r.pc = "fc_get"
       /\ Becomes(t, IF PayloadHit(cached)
                     THEN [r EXCEPT !.pc = "done", !.fc = Val(cached),
                                    !.hits = @ \cup {"forecast"}]
                     ELSE IF ~keyPresent THEN Raised(r, MissingKey)
                     ELSE [r EXCEPT !.pc = "fc_call"])
       /\ UNCHANGED <<cache, calls, wxCalls, Serial>>

\* the provider call of _forecast_5d3h up to cache.set
TForecastCall(t) ==
    LET r == threads[t]
    IN /\ r.pc = "fc_call"
       /\ \E o \in ConcWxOutcomes(FcFull, r.coords) :
            /\ wxCalls' = wxCalls \cup {[endpoint |-> "forecast", ll |-> r.coords,
                                         kind |-> o.kind, payload |-> o.payload]}
            /\ Becomes(t, IF o.kind = "ok"
                          THEN [r EXCEPT !.pc = "fc_set", !.got = o.payload]
                          ELSE Raised(r, o.err))
       /\ UNCHANGED <<cache, calls, Serial>>

\* cache.set and the return of _forecast_5d3h
TForecastSet(t) ==
    LET r == threads[t]
    IN /\ r.pc = "fc_set"
       /\ cache' = CacheSet(cache, ForecastKey(r.coords), Val(r.got), ForecastTTL, now)
       /\ Becomes(t, [r EXCEPT !.pc = "done", !.fc = Val(r.got), !.got = Nothing])
       /\ UNCHANGED <<calls, wxCalls, Serial>>

NextConc ==
    \E t \in ThreadIds :
        \/ TGeoGet(t)
        \/ TGeoCall(t)
        \/ TGeoSet(t)
        \/ TCurrentGet(t)
        \/ TCurrentCall(t)
        \/ TCurrentSet(t)
        \/ TForecastGet(t)
        \/ TForecastCall(t)
        \/ TForecastSet(t)

SpecConc == InitConc /\ [][NextConc]_vars

-----------------------------------------------------------------------------
(* Candidate generation on its own: one resolve call for each of the city  *)
(* texts built from a few pieces, from the state the process starts in.    *)

Pieces == {<<"b">>, <<"B">>, <<" ">>, <<",">>, <<"P">>, <<"h">>, <<"P","h","i","l","i","p","p","i","n","e","s">>}

RECURSIVE Texts(_)
Texts(n) ==
    IF n = 0 THEN {<<>>}
    ELSE Texts(n - 1) \cup {s \o q : s \in Texts(n - 1), q \in Pieces}

ExampleCity == <<"B","a","c","o","l","o","d"," ","C","i","t","y",","," ","N","e","g","r","o","s"," ","O","c","c","i","d","e","n","t","a","l",","," ","P","h","i","l","i","p","p","i","n","e","s">>

CityInputs == Texts(MaxPieces) \cup {ExampleCity}

StartCand == \E c \in CityInputs : StartWith(c)

SpecCand == Init /\ [][StartCand]_vars

-----------------------------------------------------------------------------
(* The aggregation on its own: the body of weather_summary after the two   *)
(* fetches, for each of the forecasts built from a few slots of the feed.  *)

\* the feed has a sample every 3 hours
SlotStep == 3 * 60 * 60

\* slot 1 has no dt, slot 2 has dt = 0, slot 3 is 03:00 of the same day as
\* slot 2, slots 4 to 6 are 3 hours apart on one day, each later slot is on a
\* day of its own
SlotDt(i) ==
    IF i = 1 THEN Nothing
    ELSE IF i = 2 THEN Some(0)
    ELSE IF i = 3 THEN Some(SlotStep)
    ELSE IF i <= 6 THEN Some(EpochBase + (i - 4) * SlotStep)
    ELSE Some(EpochBase + (i - 6) * SecondsPerDay)

SlotSample(i, profile) ==
    IF profile = "full"
    THEN Sample(SlotDt(i), Some(2000 + 115 * ((i * 3) % 7)), Some(2800 + 95 * ((i * 5) % 7)),
                Some(10 * (i % 11)), Some(1 + 12 * (i % 2)), Some(100 + 55 * (i % 5)), FALSE)
    ELSE Sample(SlotDt(i),
                IF i % 2 = 0 THEN Some(2000 + 10 * i) ELSE Nothing,
                IF i % 3 = 2 THEN Some(2800 + 10 * i) ELSE Nothing,
                IF i % 3 = 1 THEN Some(10 * (i % 11)) ELSE Nothing,
                IF i % 3 = 0 THEN Some(120) ELSE Nothing,
                IF i % 2 = 1 THEN Some(100 + 55 * (i % 5)) ELSE Nothing,
                FALSE)

\* the samples of the slots in s, in ascending or descending slot order
RECURSIVE Arrange(_, _, _)
Arrange(s, order, profile) ==
    IF s = {} THEN <<>>
    ELSE LET i == IF order = "asc" THEN CHOOSE x \in s : \A y \in s : x <= y
                  ELSE CHOOSE x \in s : \A y \in s : x >= y
         IN <<SlotSample(i, profile)>> \o Arrange(s \ {i}, order, profile)

\* three samples of one day: temp_min 20, 18, 22, temp_max 28, 30, 26,
\* pop 0.1, 0.5, 0.3, rain 0, 2.5, 1.0, wind 3, 5, 4
ExampleSamples ==
    <<Sample(Some(EpochBase), Some(2000), Some(2800), Some(10), Some(0), Some(300), FALSE),
      Sample(Some(EpochBase + SlotStep), Some(1800), Some(3000), Some(50), Some(250),
             Some(500), FALSE),
      Sample(Some(EpochBase + 2 * SlotStep), Some(2200), Some(2600), Some(30), Some(100),
             Some(400), FALSE)>>

ForecastInputs ==
    {Forecast(Some(CityName), Some(Arrange(s, order, profile))) :
        s \in SUBSET (1..MaxSlots), order \in {"asc", "desc"}, profile \in {"full", "sparse"}}
    \cup {Forecast(Some(CityName), Some(ExampleSamples))}

InitAgg ==
    /\ keyPresent = TRUE
    /\ compensated \in BOOLEAN
    /\ threads = <<>>
    /\ now = 0
    /\ cache = <<>>
    /\ pc = "assemble"
    /\ input = <<>>
    /\ city = DefaultCity
    /\ candidates = FinalCandidates(DefaultCity)
    /\ idx = 1
    /\ last_err = Nothing
    /\ calls = <<[q |-> DefaultCity, kind |-> "found", ll |-> <<1067654, 12295012>>]>>
    /\ wxCalls = <<[endpoint |-> "current", kind |-> "ok", err |-> BodyError],
                   [endpoint |-> "forecast", kind |-> "ok", err |-> BodyError]>>
    /\ coords = <<1067654, 12295012>>
    /\ wx = WxFull
    /\ fc \in ForecastInputs
    /\ response = NoResponse
    /\ nreq = 1
    /\ nadv = 0
    /\ prev = NoPrev

SpecAgg == InitAgg /\ [][Assemble]_vars

-----------------------------------------------------------------------------
(* The claims about resolve (_geocode_city), checked under SpecResolve.    *)

LastCall == calls[Len(calls)]

\* C1: the queries of a resolve call go through the candidates in their
\* generated order; no query follows one that had a result; and once a query
\* has a result, resolve has returned that result's coordinates without raising.
C1_OrderedFallback ==
    /\ Len(calls) <= Len(candidates)
    /\ \A i \in 1..Len(calls) : calls[i].q = candidates[i]
    /\ \A i \in 1..(Len(calls) - 1) : calls[i].kind # "found"
    /\ (calls # <<>> /\ LastCall.kind = "found") =>
          /\ pc = "cur_get"
          /\ coords = LastCall.ll
          /\ response = NoResponse

\* a first candidate without result, a later one with a result, returned
C1_Witness ==
    /\ pc = "cur_get"
    /\ Len(calls) = 3
    /\ calls[1].kind = "empty"
    /\ calls[2].kind = "empty"
    /\ calls[3].kind = "found"
    /\ coords = calls[3].ll

AllEmpty == calls # <<>> /\ \A i \in 1..Len(calls) : calls[i].kind = "empty"

\* C2: while every query so far returned zero results, resolve keeps querying
\* until the candidates are used up, and then fails with the not-found error
\* without having returned coordinates.
C2_Exhaustion ==
    AllEmpty =>
        IF Len(calls) < Len(candidates)
        THEN pc = "geo_call"
        ELSE /\ pc = "done"
             /\ response.kind = "error"
             /\ response.error.text = "City not found: "
             /\ response.error.arg = city
             /\ coords = <<0, 0>>

\* three candidates, three empty results, not found
C2_Witness ==
    /\ AllEmpty
    /\ Len(calls) = 3
    /\ pc = "done"
    /\ response.error.text = "City not found: "

\* the request follows, within the TTL, a resolve call with the same input
\* up to case
SecondWithinTTL ==
    /\ pc \in {"cur_get", "done"}
    /\ prev.valid
    /\ Lower(prev.input) = Lower(input)
    /\ now - prev.at < 60 * 60 * 24

\* C3, as claimed: two resolve calls with the same input up to case, the
\* second within the TTL of the first, issue at most one query between them.
C3_AtMostOneCall == SecondWithinTTL => prev.ncalls + Len(calls) <= 1

\* C3, amended: when the first of the two calls obtained coordinates from
\* the provider, the second issues no query and returns coordinates.
C3_SecondCallFree ==
    (SecondWithinTTL /\ prev.fetched) => (calls = <<>> /\ pc = "cur_get")

\* a second call that differs in case only, later but within the TTL
C3_Witness ==
    /\ SecondWithinTTL
    /\ prev.fetched
    /\ prev.input # input
    /\ now > prev.at
    /\ calls = <<>>
    /\ pc = "cur_get"

\* the unexpired entries under the lower-cased text c
LiveGeoEntries(c) ==
    {k \in DOMAIN cache : k.ns = "geocode" /\ k.text = Lower(c) /\ cache[k].expires > now}

\* C4: a resolve call made while an unexpired entry exists for its
\* lower-cased input returns the cached coordinates, generates no candidates,
\* issues no query and leaves the cache as it was.
C4_HitBypasses ==
    [][(pc = "idle" /\ pc' # "idle" /\ LiveGeoEntries(city') # {}) =>
          /\ pc' = "cur_get"
          /\ \E k \in LiveGeoEntries(city') : coords' = cache[k].value
          /\ candidates' = <<>>
          /\ calls' = <<>>
          /\ cache' = cache
          /\ response' = NoResponse]_vars

\* a call served from the cache
C4_Witness ==
    /\ pc = "cur_get"
    /\ calls = <<>>
    /\ candidates = <<>>
    /\ LiveGeoEntries(city) # {}
    /\ \E k \in LiveGeoEntries(city) : coords = cache[k].value

\* C6: when the query for a candidate fails, by a transport failure or by an
\* HTTP error status, and candidates remain, resolve goes on to the next one.
C6_FailureAdvances ==
    (calls # <<>> /\ LastCall.kind \in {"http_error", "transport"}
        /\ Len(calls) < Len(candidates)) => pc = "geo_call"

\* the part of C6 that the code keeps: an HTTP error status is recorded in
\* last_err and the loop goes on
HttpErrorAdvances ==
    (calls # <<>> /\ LastCall.kind = "http_error" /\ Len(calls) < Len(candidates)) =>
        (pc = "geo_call" /\ last_err # Nothing)

-----------------------------------------------------------------------------
(* The claim about candidate generation, checked under SpecCand.           *)

\* the text before the first comma
RECURSIVE BeforeComma(_)
BeforeComma(s) ==
    IF s = <<>> \/ Head(s) = "," THEN <<>> ELSE <<Head(s)>> \o BeforeComma(Tail(s))

\* s without the blanks around it
Trim(s) ==
    LET inked == {i \in 1..Len(s) : s[i] # " "}
    IN IF inked = {} THEN <<>>
       ELSE SubSeq(s, CHOOSE i \in inked : \A j \in inked : i <= j,
                      CHOOSE i \in inked : \A j \in inked : i >= j)

HasText(s, sub) == \E i \in 0..(Len(s) - Len(sub)) : \A j \in 1..Len(sub) : s[i + j] = sub[j]

\* rules 1 to 4, in their order
RuleCandidates(s) ==
    LET raw == Trim(s)
        first == Trim(BeforeComma(raw))
        philippines == HasText(Lower(raw), S_philippines)
        comma == HasText(raw, <<",">>)
        country == HasText(Lower(raw), <<",", "p", "h">>)
    IN <<raw>>
       \o (IF philippines THEN <<first \o <<",", "P", "H">>, first>> ELSE <<>>)
       \o (IF comma /\ ~philippines THEN <<first, first \o <<",", "P", "H">>>> ELSE <<>>)
       \o (IF ~country /\ ~philippines THEN <<first \o <<",", "P", "H">>>> ELSE <<>>)

\* the entries of l that no earlier entry equals up to case, from the i-th on
RECURSIVE FirstsFrom(_, _)
FirstsFrom(l, i) ==
    IF i > Len(l) THEN <<>>
    ELSE (IF \A j \in 1..(i - 1) : Lower(l[j]) # Lower(l[i]) THEN <<l[i]>> ELSE <<>>)
         \o FirstsFrom(l, i + 1)

KeepFirstCI(l) == FirstsFrom(l, 1)

RECURSIVE DropEmpty(_)
DropEmpty(l) ==
    IF l = <<>> THEN <<>>
    ELSE (IF Head(l) = <<>> THEN <<>> ELSE <<Head(l)>>) \o DropEmpty(Tail(l))

\* C5, as claimed: for every input the candidate list is the list of rules
\* 1 to 4, de-duplicated up to case keeping the first occurrence.
C5_RulesDeduplicated ==
    pc = "geo_call" => candidates = KeepFirstCI(RuleCandidates(input))

\* C5, amended: the candidate list is the list of rules 1 to 4 applied to the
\* input (an empty input replaced by the default city), de-duplicated up to
\* case keeping the first occurrence, with the empty candidates left out; for
\* the example it is the raw text, "Bacolod City,PH", "Bacolod City".
C5_RulesDeduplicatedNonEmpty ==
    pc = "geo_call" =>
        /\ candidates = KeepFirstCI(DropEmpty(RuleCandidates(
                            IF input = <<>> THEN <<"B","a","c","o","l","o","d",",","P","H">> ELSE input)))
        /\ input = ExampleCity =>
              candidates = <<ExampleCity, <<"B","a","c","o","l","o","d"," ","C","i","t","y",",","P","H">>, <<"B","a","c","o","l","o","d"," ","C","i","t","y">>>>

\* the example's candidates
C5_Witness ==
    /\ pc = "geo_call"
    /\ input = ExampleCity
    /\ candidates = <<ExampleCity, <<"B","a","c","o","l","o","d"," ","C","i","t","y",",","P","H">>, <<"B","a","c","o","l","o","d"," ","C","i","t","y">>>>

\* an input whose list has a duplicate up to case and an empty candidate
C5_WitnessDedup ==
    /\ pc = "geo_call"
    /\ input = <<",","P","h">>
    /\ candidates = <<<<",","P","h">>>>

-----------------------------------------------------------------------------
(* The claims about the responses of weather_summary, checked under Spec.  *)

LastWxCall == wxCalls[Len(wxCalls)]

\* C7: a transport failure of the current-conditions or forecast call ends
\* the request with an error response of status 502.
C7_TransportIs502 ==
    (pc = "done" /\ wxCalls # <<>> /\ LastWxCall.kind = "transport") =>
        (response.kind = "error" /\ response.status = 502)

\* what the code does there: the failure ends the request with status 500
TransportIs500 ==
    (pc = "done" /\ wxCalls # <<>> /\ LastWxCall.kind = "transport") =>
        (response.kind = "error" /\ response.status = 500)

\* C8: when a weather call returns status 4xx or 5xx, the response has the
\* provider's status and the text of its body when the body parses, and
\* status 502 and the text of the error when it does not; either way it is an
\* error body of one text field.
C8_UpstreamErrorMapping ==
    (pc = "done" /\ wxCalls # <<>> /\ LastWxCall.kind = "http_error") =>
        /\ response.kind = "error"
        /\ response.payload = Nothing
        /\ IF LastWxCall.err.json
           THEN /\ response.status = LastWxCall.err.status
                /\ response.error = [text |-> "repr", arg |-> <<>>,
                                     of |-> LastWxCall.err.body, num |-> 0]
           ELSE /\ response.status = 502
                /\ response.error = LastWxCall.err.msg

\* a forecast call answered 401 with a JSON body, passed on as 401
C8_Witness ==
    /\ pc = "done"
    /\ Len(wxCalls) = 2
    /\ LastWxCall.kind = "http_error"
    /\ LastWxCall.err.json
    /\ LastWxCall.err.status = 401
    /\ response.status = 401
    /\ response.error.of = "json body"

\* an upstream error whose body does not parse, answered 502
C8_WitnessUnparsed ==
    /\ pc = "done"
    /\ wxCalls # <<>>
    /\ LastWxCall.kind = "http_error"
    /\ ~LastWxCall.err.json
    /\ LastWxCall.err.status = 503
    /\ response.status = 502

\* every candidate was queried and none had a result
Exhausted ==
    /\ calls # <<>>
    /\ Len(calls) = Len(candidates)
    /\ LastCall.kind \in {"empty", "http_error"}

\* C9: a request has no response until it ends and ends with one response,
\* 200 with the summary payload or an error body of one text field; no
\* exception leaves weather_summary; a missing
\* credential and an exhausted resolve are answered 500.
C9_OneResponse ==
    /\ pc \in {"idle", "geo_call", "cur_get", "cur_call", "fc_get", "fc_call", "assemble",
              "done"}
    /\ pc = "geo_call" => idx \in 1..Len(candidates)
    /\ pc # "done" => response = NoResponse
    /\ pc = "done" =>
          /\ response.kind \in {"ok", "error"}
          /\ response.kind = "ok" => (response.status = 200 /\ response.payload # Nothing)
          /\ response.kind = "error" =>
                /\ response.payload = Nothing
                /\ response.status \in 400..599
                /\ response.error.text # ""
          /\ ~keyPresent =>
                /\ response.kind = "error"
                /\ response.status = 500
                /\ response.error.text = "Missing OWM_API_KEY in environment/.env"
          /\ Exhausted =>
                /\ response.kind = "error"
                /\ response.status = 500
                /\ response.error.arg = city

\* a request that ends 200 with daily rows
C9_Witness ==
    /\ pc = "done"
    /\ response.kind = "ok"
    /\ Len(wxCalls) = 2
    /\ Len(Val(response.payload).daily) = 2

\* requests that end 500: not found, no credential, a failed aggregation
C9_WitnessNotFound == pc = "done" /\ Exhausted /\ response.status = 500
C9_WitnessNoKey == pc = "done" /\ ~keyPresent /\ response.status = 500
C9_WitnessAggregation ==
    pc = "done" /\ fc = FcBad /\ response.status = 500 /\ response.error.text # ""

-----------------------------------------------------------------------------
(* The claim about the daily rows, checked under SpecAgg.                  *)

\* the day numbers of the samples that carry a timestamp
StampedDays ==
    LET l == ForecastList(fc)
    IN {Val(l[i].dt) \div (24 * 60 * 60) : i \in {j \in 1..Len(l) : l[j].dt # Nothing}}

\* the day numbers of the samples whose timestamp is not 0
NonZeroDays ==
    LET l == ForecastList(fc)
    IN {Val(l[i].dt) \div (24 * 60 * 60) :
            i \in {j \in 1..Len(l) : l[j].dt # Nothing /\ Val(l[j].dt) # 0}}

\* the k smallest of a set of numbers, ascending
RECURSIVE Smallest(_, _)
Smallest(s, k) ==
    IF k = 0 \/ s = {} THEN <<>>
    ELSE LET m == CHOOSE x \in s : \A y \in s : x <= y
         IN <<m>> \o Smallest(s \ {m}, k - 1)

RowDates == [i \in 1..Len(Val(response.payload).daily) |-> Val(response.payload).daily[i].date]

DatesOf(days) == [i \in 1..Len(days) |-> DateKey(days[i] * 24 * 60 * 60)]

\* C10: the daily rows are at most 5, ascending by date without repeats, and
\* are the rows of the min(5, n) earliest of the n dates of the samples that
\* carry a timestamp.
C10_FiveEarliestDates ==
    (pc = "done" /\ response.kind = "ok") =>
        /\ Len(RowDates) <= 5
        /\ RowDates = DatesOf(Smallest(StampedDays, 5))

\* what the code does: the same of the samples whose timestamp is not 0
FiveEarliestNonZeroDates ==
    (pc = "done" /\ response.kind = "ok") =>
        /\ Len(RowDates) <= 5
        /\ RowDates = DatesOf(Smallest(NonZeroDays, 5))

\* seven dates among the samples, five rows
SevenDatesFiveRows ==
    /\ pc = "done"
    /\ response.kind = "ok"
    /\ Cardinality(NonZeroDays) = 7
    /\ Len(RowDates) = 5

-----------------------------------------------------------------------------
(* The claims about the values of the daily rows, checked under SpecAgg.   *)
(* The expected values are worked out in exact decimal arithmetic, in      *)
(* units of 0.01, from the samples as the provider sent them.              *)

Answered == pc = "done" /\ response.kind = "ok"

Rows == Val(response.payload).daily

\* the samples of l that carry a timestamp falling on date d
SamplesOn(l, d) == SelectSeq(l, LAMBDA it : it.dt # Nothing /\ DateKey(Val(it.dt)) = d)

\* the same, leaving out the samples whose timestamp is 0
KeptSamplesOn(l, d) == SelectSeq(SamplesOn(l, d), LAMBDA it : Val(it.dt) # 0)

\* the values that are not null among field f of the samples s
ValuesOf(s, f) == {Val(s[i][f]) : i \in {j \in 1..Len(s) : s[j][f] # Nothing}}

\* how many samples of s have a value in field f
CountOf(s, f) == Cardinality({j \in 1..Len(s) : s[j][f] # Nothing})

RECURSIVE TotalOf(_, _)
TotalOf(s, f) == IF s = <<>> THEN 0 ELSE OrZero(Head(s)[f]) + TotalOf(Tail(s), f)

MinOf(vs) == CHOOSE x \in vs : \A y \in vs : x <= y
MaxOf(vs) == CHOOSE x \in vs : \A y \in vs : x >= y

\* v is num / den given to one decimal place: a one-decimal number with no
\* other one-decimal number nearer to num / den
OneDecimalOf(v, num, den) ==
    /\ v # Nothing
    /\ Val(v) % 10 = 0
    /\ Val(v) * den - num <= 5 * den
    /\ num - Val(v) * den <= 5 * den

\* row r holds the reductions of the samples s
RowReduces(r, s) ==
    /\ IF ValuesOf(s, "temp_min") = {} THEN r.temp_min = Nothing
       ELSE OneDecimalOf(r.temp_min, MinOf(ValuesOf(s, "temp_min")), 1)
    /\ IF ValuesOf(s, "temp_max") = {} THEN r.temp_max = Nothing
       ELSE OneDecimalOf(r.temp_max, MaxOf(ValuesOf(s, "temp_max")), 1)
    /\ OneDecimalOf(r.pop, 100 * MaxOf({OrZero(s[i].pop) : i \in 1..Len(s)}), 1)
    /\ OneDecimalOf(r.rain_mm, TotalOf(s, "rain"), 1)
    /\ IF ValuesOf(s, "wind") = {} THEN r.wind_speed = Nothing
       ELSE OneDecimalOf(r.wind_speed, TotalOf(s, "wind"), CountOf(s, "wind"))

\* C11: in a 200 response, the row of each emitted date holds, to one decimal
\* place, the minimum of the non-null temp_min values, the maximum of the
\* non-null temp_max values, the maximum pop times 100, the sum of the rain
\* volumes and the mean of the non-null wind speeds of the samples whose
\* timestamp falls on that date, and of no other sample.
C11_RowsReduceTheirDate ==
    Answered =>
        \A i \in 1..Len(Rows) : RowReduces(Rows[i], SamplesOn(ForecastList(fc), Rows[i].date))

\* what the code does: the same of the samples whose timestamp is not 0
RowsReduceKeptSamples ==
    Answered =>
        \A i \in 1..Len(Rows) :
            RowReduces(Rows[i], KeptSamplesOn(ForecastList(fc), Rows[i].date))

\* the three samples of one day give 18.0, 30.0, 50.0, 3.5 and 4.0
ExampleRow ==
    /\ Answered
    /\ ForecastList(fc) = ExampleSamples
    /\ Rows = <<[date |-> DateKey(EpochBase), temp_min |-> Some(1800),
                 temp_max |-> Some(3000), pop |-> Some(5000), rain_mm |-> Some(350),
                 wind_speed |-> Some(400)]>>

\* a row made while a sample of its date with timestamp 0 was left out
RowWithoutEpochSample ==
    /\ Answered
    /\ \E i \in 1..Len(Rows) :
        Len(KeptSamplesOn(ForecastList(fc), Rows[i].date))
            < Len(SamplesOn(ForecastList(fc), Rows[i].date))

-----------------------------------------------------------------------------
(* The claim about the order of the samples, checked under SpecAgg.        *)

\* l with its elements i and i + 1 exchanged
SwapAt(l, i) ==
    [k \in 1..Len(l) |-> IF k = i THEN l[i + 1] ELSE IF k = i + 1 THEN l[i] ELSE l[k]]

Reversed(l) == [k \in 1..Len(l) |-> l[Len(l) + 1 - k]]

\* l rearranged: two neighbours exchanged, or back to front
Rearranged(l) == {SwapAt(l, i) : i \in 1..(Len(l) - 1)} \cup {Reversed(l)}

\* C12: the daily rows do not depend on the order of the samples: the rows of
\* a 200 response are also the rows of the same samples with two neighbours
\* exchanged and of the same samples back to front.
C12_OrderInsensitive ==
    Answered => \A q \in Rearranged(ForecastList(fc)) : DailyRows(q) = Rows

\* what the code does where sum() compensates its rounding errors
OrderInsensitiveIfCompensated ==
    (Answered /\ compensated) =>
        \A q \in Rearranged(ForecastList(fc)) : DailyRows(q) = Rows

\* what the code does everywhere: only the two fields made with sum() depend
\* on the order
OrderChangesOnlySums ==
    Answered =>
        \A q \in Rearranged(ForecastList(fc)) :
            LET other == DailyRows(q)
            IN /\ Len(other) = Len(Rows)
               /\ \A i \in 1..Len(Rows) :
                    /\ other[i].date = Rows[i].date
                    /\ other[i].temp_min = Rows[i].temp_min
                    /\ other[i].temp_max = Rows[i].temp_max
                    /\ other[i].pop = Rows[i].pop

\* three samples of one day whose rain sum is 0.2 in one order, 0.1 in another
RainSumDependsOnOrder ==
    /\ Answered
    /\ Len(Rows) = 1
    /\ Len(ForecastList(fc)) = 3
    /\ \E q \in Rearranged(ForecastList(fc)) :
        DailyRows(q)[1].rain_mm # Rows[1].rain_mm

-----------------------------------------------------------------------------
(* The claim about samples with missing fields, checked under SpecAgg.     *)

\* l with every missing pop and every missing rain written as 0
Filled(l) ==
    [k \in 1..Len(l) |->
        [l[k] EXCEPT !.pop = IF l[k].pop = Nothing THEN Some(0) ELSE l[k].pop,
                     !.rain = IF l[k].rain = Nothing THEN Some(0) ELSE l[k].rain]]

\* row r leaves the missing temperatures and wind speeds of the samples s out
LeavesOutMissing(r, s) ==
    /\ IF ValuesOf(s, "temp_min") = {} THEN r.temp_min = Nothing
       ELSE OneDecimalOf(r.temp_min, MinOf(ValuesOf(s, "temp_min")), 1)
    /\ IF ValuesOf(s, "temp_max") = {} THEN r.temp_max = Nothing
       ELSE OneDecimalOf(r.temp_max, MaxOf(ValuesOf(s, "temp_max")), 1)
    /\ IF ValuesOf(s, "wind") = {} THEN r.wind_speed = Nothing
       ELSE OneDecimalOf(r.wind_speed, TotalOf(s, "wind"), CountOf(s, "wind"))

\* C13: whatever fields the samples lack, the aggregation does not fail; its
\* rows are those of the same samples with every missing pop and rain written
\* as 0; and in each row temp_min, temp_max and wind_speed are the minimum,
\* maximum and mean of the values present among the samples put in the row's
\* bucket, null when there is none.
C13_MissingFields ==
    pc = "done" =>
        /\ response.kind = "ok"
        /\ Rows = DailyRows(Filled(ForecastList(fc)))
        /\ \A i \in 1..Len(Rows) :
            LeavesOutMissing(Rows[i], KeptSamplesOn(ForecastList(fc), Rows[i].date))

\* a row of three samples, one of them without rain and pop, one without
\* temp_min, two without wind: the rain of the one that has it, the pop of the
\* one that has it, the smaller temp_min of two, the wind of one
C13_Witness ==
    /\ Answered
    /\ \E i \in 1..Len(Rows) :
        LET s == KeptSamplesOn(ForecastList(fc), Rows[i].date)
        IN /\ Len(s) = 3
           /\ \E j \in 1..3 : s[j].rain = Nothing /\ s[j].pop = Nothing
           /\ \E j \in 1..3 : s[j].temp_min = Nothing /\ s[j].wind # Nothing
           /\ CountOf(s, "wind") = 1
           /\ CountOf(s, "temp_min") = 2
           /\ Rows[i].rain_mm = Some(120)
           /\ Rows[i].pop = Some(4000)
           /\ Rows[i].temp_min = Some(2040)
           /\ Rows[i].wind_speed = Some(100)

-----------------------------------------------------------------------------
(* The claims about the caches of _current_weather and _forecast_5d3h,     *)
(* checked under SpecWarm.                                                 *)

\* the entry under key, whatever its value, if it has not expired
LiveEntry(key) == key \in DOMAIN cache /\ cache[key].expires > now

\* C14: when _current_weather (and likewise _forecast_5d3h) is called while
\* an unexpired entry exists under the key of the rounded coordinates, it
\* returns the payload of that entry and makes no provider call, whatever
\* payload the entry holds.
C14_LiveEntryBypasses ==
    [][/\ (pc = "cur_get" /\ LiveEntry(CurrentKey(coords))) =>
            /\ pc' = "fc_get"
            /\ wx' = cache[CurrentKey(coords)].value
            /\ wxCalls' = wxCalls
       /\ (pc = "fc_get" /\ LiveEntry(ForecastKey(coords))) =>
            /\ pc' = "assemble"
            /\ fc' = cache[ForecastKey(coords)].value
            /\ wxCalls' = wxCalls]_vars

\* what the code does: the same for the payloads that count as true
TruthyEntryBypasses ==
    [][/\ (/\ pc = "cur_get"
           /\ LiveEntry(CurrentKey(coords))
           /\ PayloadTruthy(cache[CurrentKey(coords)].value)) =>
            /\ pc' = "fc_get"
            /\ wx' = cache[CurrentKey(coords)].value
            /\ wxCalls' = wxCalls
       /\ (/\ pc = "fc_get"
           /\ LiveEntry(ForecastKey(coords))
           /\ PayloadTruthy(cache[ForecastKey(coords)].value)) =>
            /\ pc' = "assemble"
            /\ fc' = cache[ForecastKey(coords)].value
            /\ wxCalls' = wxCalls]_vars

\* a provider call made while an unexpired entry, an empty payload, was there
CallDespiteLiveEntry ==
    /\ pc = "cur_call"
    /\ LiveEntry(CurrentKey(coords))
    /\ cache[CurrentKey(coords)].value = WxEmpty

\* both payloads of a request came from the cache, for coordinates that
\* differ from the stored ones past the fourth decimal place
BothServedFromCache ==
    /\ pc = "assemble"
    /\ wxCalls = <<>>
    /\ coords # WarmCoords
    /\ wx = WxFull
    /\ fc = FcFull

-----------------------------------------------------------------------------
(* The claim about requests served at the same time, checked under         *)
(* SpecConc.                                                               *)

\* the coordinates a and b have the same four decimal places
SamePlace(a, b) == Round4(a[1]) = Round4(b[1]) /\ Round4(a[2]) = Round4(b[2])

\* some request got the coordinates ll from the provider for the city c,
\* whatever the case of its letters
FetchedCoords(c, ll) ==
    \E f \in calls : f.kind = "found" /\ f.ll = ll /\ Lower(f.city) = Lower(c)

\* some request got the payload p from the provider's endpoint e for
\* coordinates at the place of ll
FetchedPayload(e, ll, p) ==
    \E f \in wxCalls :
        f.endpoint = e /\ f.kind = "ok" /\ f.payload = Some(p) /\ SamePlace(f.ll, ll)

\* C15: however the steps of the requests interleave, what a request has read
\* from the cache is a whole value that some request got from the provider
\* for the same key: coordinates for the same city text in lower case, a
\* payload of the same endpoint for the same rounded coordinates.
C15_ReadsAreFetchedValues ==
    \A t \in ThreadIds :
        LET r == threads[t]
        IN /\ "geocode" \in r.hits => FetchedCoords(r.city, r.coords)
           /\ "current" \in r.hits =>
                /\ FetchedPayload("current", r.coords, r.wx)
                /\ SamePlace(r.wx.coord, r.coords)
           /\ "forecast" \in r.hits =>
                /\ FetchedPayload("forecast", r.coords, r.fc)
                /\ SamePlace(r.fc.coord, r.coords)

\* two requests missed and wrote the same key, and one of them was served the
\* forecast the other stored
C15_Witness ==
    \E t, u \in ThreadIds :
        /\ t # u
        /\ threads[t].pc = "done"
        /\ threads[u].pc = "done"
        /\ threads[t].hits = {"forecast"}
        /\ threads[u].hits = {}
        /\ threads[u].error = Nothing
        /\ threads[t].coords # threads[u].coords
        /\ threads[t].city # threads[u].city

-----------------------------------------------------------------------------
(* The claim about the cause of a failed resolve, checked under Spec.      *)

\* some query of the resolve call was answered with an error status
SomeProviderError == \E i \in 1..Len(calls) : calls[i].kind = "http_error"

\* the error statuses the geocoding provider answers with
ProviderErrors == {o.err : o \in {g \in GeoOutcomes : g.kind = "http_error"}}

\* the response r tells of the provider error e: by its status, in its text,
\* or by the body of the provider's answer
TellsOf(r, e) ==
    \/ r.status = e.status
    \/ r.error = StrExc(e)
    \/ r.error.num = e.status
    \/ r.error.of = e.body

\* C16: when the candidates of a resolve call are used up without a result,
\* the failure surfaced tells of the provider error if a query failed with
\* one, and is the plain not-found only if none did.
C16_ProviderErrorIsCause ==
    (pc = "done" /\ Exhausted) =>
        /\ response.kind = "error"
        /\ IF SomeProviderError
           THEN \E e \in ProviderErrors : TellsOf(response, e)
           ELSE response.error = StrExc(NotFound(city))

\* what the code does: after a provider error the failure is another
\* not-found text that names the city and nothing of the error
ProviderErrorIsDropped ==
    (pc = "done" /\ Exhausted) =>
        response = JsonError(StrExc(IF SomeProviderError THEN NotFoundOWM(city)
                                    ELSE NotFound(city)), 500)

\* every query answered 401, the response is the not-found text
AllQueriesRefused ==
    /\ pc = "done"
    /\ Len(calls) = 3
    /\ \A i \in 1..3 : calls[i].kind = "http_error"
    /\ response.status = 500
    /\ response.error.text = "City not found (OWM): "

-----------------------------------------------------------------------------
(* The claim about the samples the aggregation skips, checked under        *)
(* SpecAgg.                                                                *)

\* the dates of the samples of l that carry a timestamp
StampedDates(l) == {DateKey(Val(l[i].dt)) : i \in {j \in 1..Len(l) : l[j].dt # Nothing}}

\* the dates of the samples of l whose timestamp is not 0
KeptDates(l) ==
    {DateKey(Val(l[i].dt)) : i \in {j \in 1..Len(l) : l[j].dt # Nothing /\ Val(l[j].dt) # 0}}

\* C17: when the request is answered, the buckets of the aggregation are the
\* UTC dates of the samples that carry a timestamp, whatever its value, and
\* the bucket of a date holds one entry for each sample whose timestamp falls
\* on that date; the rows are made of these buckets.
C17_OnlyUnstampedSkipped ==
    Answered =>
        LET l == ForecastList(fc)
            b == Buckets(l, <<>>)
        IN /\ DOMAIN b = StampedDates(l)
           /\ \A d \in DOMAIN b : Len(b[d].pops) = Len(SamplesOn(l, d))
           /\ \A i \in 1..Len(Rows) : Rows[i].date \in StampedDates(l)

\* what the code does: a sample whose timestamp is 0 is skipped as well
ZeroStampSkippedToo ==
    Answered =>
        LET l == ForecastList(fc)
            b == Buckets(l, <<>>)
        IN /\ DOMAIN b = KeptDates(l)
           /\ \A d \in DOMAIN b : Len(b[d].pops) = Len(KeptSamplesOn(l, d))
           /\ \A i \in 1..Len(Rows) : Rows[i].date \in KeptDates(l)

\* the only sample has the timestamp 0 and there is no row
EpochSampleHasNoRow ==
    /\ Answered
    /\ Len(ForecastList(fc)) = 1
    /\ ForecastList(fc)[1].dt = Some(0)
    /\ Rows = <<>>

-----------------------------------------------------------------------------
(* The claim about the age of what the caches serve, checked under         *)
(* SpecWarm.                                                               *)

\* the age of the entry under key
Age(key) == now - cache[key].at

\* C18: coordinates, current conditions or a forecast returned without a
\* provider call are the value of an entry set at most 24 hours, 60 seconds
\* or 180 seconds before; and a call that finds an entry of that age or older
\* under its key goes to the provider.
C18_NothingStale ==
    [][/\ (pc = "idle" /\ pc' = "cur_get") =>
            /\ GeoKey(city') \in DOMAIN cache
            /\ coords' = cache[GeoKey(city')].value
            /\ Age(GeoKey(city')) <= GeoTTL
       /\ (pc = "cur_get" /\ pc' = "fc_get") =>
            /\ CurrentKey(coords) \in DOMAIN cache
            /\ wx' = cache[CurrentKey(coords)].value
            /\ Age(CurrentKey(coords)) <= CurrentTTL
       /\ (pc = "fc_get" /\ pc' = "assemble") =>
            /\ ForecastKey(coords) \in DOMAIN cache
            /\ fc' = cache[ForecastKey(coords)].value
            /\ Age(ForecastKey(coords)) <= ForecastTTL
       /\ (/\ pc = "idle"
           /\ GeoKey(city') \in DOMAIN cache
           /\ Age(GeoKey(city')) >= GeoTTL) => pc' = "geo_call"
       /\ (/\ pc = "cur_get"
           /\ CurrentKey(coords) \in DOMAIN cache
           /\ Age(CurrentKey(coords)) >= CurrentTTL) => pc' = "cur_call"
       /\ (/\ pc = "fc_get"
           /\ ForecastKey(coords) \in DOMAIN cache
           /\ Age(ForecastKey(coords)) >= ForecastTTL) => pc' = "fc_call"]_vars

\* 60 seconds after the entries were set: the coordinates and the forecast
\* came from the cache, the current conditions from the provider
C18_Witness ==
    /\ pc = "assemble"
    /\ now = CurrentTTL
    /\ calls = <<>>
    /\ Len(wxCalls) = 1
    /\ wxCalls[1].endpoint = "current"
    /\ cache[CurrentKey(coords)].at = now
    /\ cache[ForecastKey(coords)].at = 0
    /\ fc = FcFull

\* one second before 24 hours: the coordinates still came from the cache
C18_WitnessDay ==
    /\ pc = "cur_get"
    /\ now = GeoTTL - 1
    /\ calls = <<>>
    /\ coords = WarmCoords

\* at 24 hours the resolve call went to the provider
C18_WitnessDayOver ==
    /\ pc = "geo_call"
    /\ now = GeoTTL
    /\ GeoKey(city) \in DOMAIN cache

-----------------------------------------------------------------------------
(* The claim about the fields of a row that are never null, checked under  *)
(* SpecAgg, whose samples have pop between 0 and 1.                        *)

\* C19: in a 200 response every daily row has a date, a pop between 0 and
\* 100 and a rain_mm, none of them null.
C19_RowFieldsPresent ==
    Answered =>
        \A i \in 1..Len(Rows) :
            /\ Len(Rows[i].date) = 10
            /\ Rows[i].pop # Nothing
            /\ Val(Rows[i].pop) >= 0
            /\ Val(Rows[i].pop) <= 100 * 100
            /\ Rows[i].rain_mm # Nothing

\* a row of a sample with neither pop nor rain nor wind: pop 0, rain_mm 0,
\* wind_speed null; and a row with pop 100 and temp_max null
C19_Witness ==
    /\ Answered
    /\ \E i \in 1..Len(Rows) :
        /\ Rows[i].pop = Some(0)
        /\ Rows[i].rain_mm = Some(0)
        /\ Rows[i].wind_speed = Nothing
    /\ \E i \in 1..Len(Rows) :
        /\ Rows[i].pop = Some(100 * 100)
        /\ Rows[i].temp_max = Nothing

-----------------------------------------------------------------------------
(* The claim about failures and the cache, checked under SpecWarm: one     *)
(* request, every outcome of every provider call, from a cache that may    *)
(* already hold entries.                                                   *)

\* the provider call of this step, if it made one
GeoCalled == Len(calls') = Len(calls) + 1
WxCalled == Len(wxCalls') = Len(wxCalls) + 1
GeoCall == calls'[Len(calls')]
WxCall == wxCalls'[Len(wxCalls')]

\* the request ends in this step with an error response
Fails == pc # "done" /\ pc' = "done" /\ response'.status # 200

\* the step stores what a successful provider call returned, under the key
\* and with the lifetime of its operation
StoresFetched ==
    \/ /\ GeoCalled
       /\ GeoCall.kind = "found"
       /\ cache' = CacheSet(cache, GeoKey(city), GeoCall.ll, GeoTTL, now)
    \/ /\ WxCalled
       /\ WxCall.kind = "ok"
       /\ WxCall.endpoint = "current"
       /\ cache' = CacheSet(cache, CurrentKey(coords), wx', CurrentTTL, now)
    \/ /\ WxCalled
       /\ WxCall.kind = "ok"
       /\ WxCall.endpoint = "forecast"
       /\ cache' = CacheSet(cache, ForecastKey(coords), fc', ForecastTTL, now)

\* C20: a step whose provider call found nothing, was refused or failed, and
\* a step that ends the request with an error, leave the cache as it was;
\* the cache changes only by storing what a successful call returned.
C20_FailuresNotCached ==
    [][/\ (GeoCalled /\ GeoCall.kind # "found") => cache' = cache
       /\ (WxCalled /\ WxCall.kind # "ok") => cache' = cache
       /\ Fails => cache' = cache
       /\ cache' # cache => StoresFetched]_vars

\* a forecast call was refused after the geocode and the current weather
\* had been fetched and stored: the expired forecast entry is still the one
\* set at time 0
C20_Witness ==
    /\ pc = "done"
    /\ response.status # 200
    /\ Len(calls) > 0
    /\ calls[Len(calls)].kind = "found"
    /\ Len(wxCalls) = 2
    /\ wxCalls[1].kind = "ok"
    /\ wxCalls[2].kind = "http_error"
    /\ ForecastKey(coords) \in DOMAIN cache
    /\ cache[ForecastKey(coords)].at = 0
    /\ cache[ForecastKey(coords)].expires <= now
    /\ cache[CurrentKey(coords)].at = now

\* a resolve that found the city under none of its queries wrote nothing
C20_WitnessNotFound ==
    /\ pc = "done"
    /\ response.status # 200
    /\ Len(calls) > 1
    /\ \A i \in 1..Len(calls) : calls[i].kind \in {"empty", "http_error"}
    /\ cache \in WarmCaches
    /\ cache # << >>

====
